---- MODULE Spec2Model ----
(***************************************************************************)
(* A model of the depth2mesh ComfyUI nodes (src/depth2mesh/nodes.py) and   *)
(* of the requirements installer (src/install.py).                         *)
(*                                                                         *)
(* A mesh object is a heap cell: its identity is its index in heap, its    *)
(* content is the face count the nodes read with len(mesh.faces) and the   *)
(* bounding box the preview reads with np.ptp.  Lengths are integers in    *)
(* units of 1e-7, so that epsilon = 1e-6 is the integer 10 and 1.0 is      *)
(* 10000000.                                                               *)
(***************************************************************************)
EXTENDS Integers, Sequences, FiniteSets, TLC

VARIABLES heap, backend, last, prev, files, built

vars == <<heap, backend, last, prev, files, built>>

\* ------------------------------------------------------------------ bounds
NumMeshes == 2        \* mesh objects alive in a workflow
MaxCounter == 3       \* highest file counter a save may reach
MaxGrid == 3          \* largest image side, in samples

\* --------------------------------------------------------------- constants
PREVIEW_FACE_LIMIT == 50000
epsilon == 10
AspectSubstitute == 10000000
Fmt05dWidth == 5

\* ------------------------------------------------------------------ meshes
MeshIds == 1 .. NumMeshes

\* The meshes a workflow may hold: a two-face open sheet, a tetrahedron-sized
\* solid, the flat slab of an all-zero image, slabs whose height sits at and
\* just above epsilon, and solids at and above the preview limit.
FlatSlab == [faces |-> 12, lo |-> <<0, 0, 0>>, hi |-> <<1000000000, 1000000000, 0>>]

Catalogue ==
    { [faces |-> 2, lo |-> <<0, 0, 0>>, hi |-> <<1000000000, 1000000000, 0>>],
      [faces |-> 4, lo |-> <<0, 0, 0>>, hi |-> <<5, 1000000000, 11>>],
      FlatSlab,
      [faces |-> 12, lo |-> <<0, 0, 0>>, hi |-> <<1000000000, 1000000000, 10>>],
      [faces |-> 50000, lo |-> <<0, 0, 0>>, hi |-> <<1000000000, 1000000000, 100000000>>],
      [faces |-> 50001, lo |-> <<0, 0, 0>>, hi |-> <<1000000000, 1000000000, 0>>] }

\* The box a decimated mesh may have: the routine decides it.
DecimatedBoxes ==
    { [lo |-> <<0, 0, 0>>, hi |-> <<x, 1000000000, z>>] : x \in {0, 1000000000}, z \in {0, 10, 11} }

Targets == {3, 4, 12, 100, 50000}

Backends == {"fast_simplification", "other", "none"}

NoMesh == [faces |-> 0 - 1]

\* --------------------------------------------------- the decimation routine
\* mesh.simplify_quadric_decimation(face_count=...): a third-party routine.
\* With no usable backend it raises; otherwise it returns a new mesh, which
\* the model keeps as the term (input content, requested face count, backend).
Routine(content, face_count, b) ==
    IF b = "none"
    THEN [kind |-> "raised", ref |-> 0, new |-> NoMesh]
    ELSE [kind |-> "returned", ref |-> 0,
          new |-> [of |-> content, face_count |-> face_count, by |-> b]]

\* ---------------------------------------------------------- SimplifyMesh
SmallEnough_Strict(n, target_face_count) == n < target_face_count

SmallEnough_Never(n, target_face_count) == FALSE

\* "if len(mesh.faces) <= target_face_count"
SmallEnough(n, target_face_count) == n <= target_face_count

SimplifyOut_Validating(m, target_face_count) ==
    IF target_face_count < 4
    THEN [kind |-> "InvalidParameter", ref |-> 0, new |-> NoMesh]
    ELSE IF SmallEnough(heap[m].faces, target_face_count)
         THEN [kind |-> "returned", ref |-> m, new |-> NoMesh]
         ELSE Routine(heap[m], target_face_count, backend)

\* What simplify hands back: the input itself, or the routine's outcome.
SimplifyOut(m, target_face_count) ==
    IF SmallEnough(heap[m].faces, target_face_count)
    THEN [kind |-> "returned", ref |-> m, new |-> NoMesh]
    ELSE Routine(heap[m], target_face_count, backend)

\* The calls of the decimation routine simplify makes.
SimplifyInvoked(m, target_face_count) ==
    IF SmallEnough(heap[m].faces, target_face_count)
    THEN << >>
    ELSE << [mesh |-> m, face_count |-> target_face_count] >>

SimplifyHeap_InPlace(m, target_face_count) ==
    IF SmallEnough(heap[m].faces, target_face_count)
    THEN heap
    ELSE [heap EXCEPT ![m].faces = target_face_count]

\* The heap after simplify: the node assigns to no attribute of the mesh.
SimplifyHeap(m, target_face_count) == heap

\* The latest simplify call made so far (kept to compare two runs).
PrevSimplify == IF last.op = "simplify" THEN last ELSE prev

Simplify(m, target_face_count) ==
    /\ last' = [op |-> "simplify", mesh |-> m, target |-> target_face_count,
                before |-> heap[m], by |-> backend,
                invoked |-> SimplifyInvoked(m, target_face_count),
                out |-> SimplifyOut(m, target_face_count)]
    /\ prev' = PrevSimplify
    /\ heap' = SimplifyHeap(m, target_face_count)
    /\ UNCHANGED <<backend, files, built>>

\* ------------------------------------------------------------- install.py
\* install(): returns early without requirements.txt; otherwise runs pip,
\* which on success leaves the packages the file lists installed.
Install(req_found, pip_ok, lists_fast) ==
    /\ backend' = IF req_found /\ pip_ok /\ lists_fast
                  THEN "fast_simplification" ELSE backend
    /\ last' = [op |-> "install",
                exit |-> IF req_found /\ ~pip_ok THEN 1 ELSE 0]
    /\ prev' = PrevSimplify
    /\ UNCHANGED <<heap, files, built>>

NoCall == [op |-> "none"]

\* ------------------------------------------------------------ SaveMeshSTL
Digit(d) ==
    CASE d = 0 -> "0" [] d = 1 -> "1" [] d = 2 -> "2" [] d = 3 -> "3"
      [] d = 4 -> "4" [] d = 5 -> "5" [] d = 6 -> "6" [] d = 7 -> "7"
      [] d = 8 -> "8" [] d = 9 -> "9"

RECURSIVE Decimal(_)
Decimal(n) == IF n < 10 THEN Digit(n) ELSE Decimal(n \div 10) \o Digit(n % 10)

RECURSIVE ZeroPad(_)
ZeroPad(s) == IF Len(s) < Fmt05dWidth THEN ZeroPad("0" \o s) ELSE s

\* f"{counter:05d}": decimal, zero-padded to at least five characters.
Fmt05d(counter) == ZeroPad(Decimal(counter))

\* folder_paths.get_output_directory()
output_dir == "output"

\* os.path.join(output_dir, f"{filename_prefix}{counter:05d}.stl")
Filename(filename_prefix, counter) ==
    filename_prefix \o Fmt05d(counter) \o ".stl"

Filepath(filename_prefix, counter) ==
    output_dir \o "/" \o Filename(filename_prefix, counter)

NextCounter_First(dir, filename_prefix, counter) == counter

\* "while True: ... if not os.path.exists(filepath): break; counter += 1"
RECURSIVE NextCounter(_, _, _)
NextCounter(dir, filename_prefix, counter) ==
    IF Filepath(filename_prefix, counter) \in DOMAIN dir
    THEN NextCounter(dir, filename_prefix, counter + 1)
    ELSE counter

\* mesh.export(filepath): the file at filepath now holds the mesh.
Export(dir, filepath, content) ==
    [p \in DOMAIN dir \cup {filepath} |-> IF p = filepath THEN content ELSE dir[p]]

Prefixes == {"Mesh_", "Mesh_0"}

Save(m, filename_prefix) ==
    LET counter == NextCounter(files, filename_prefix, 1)
        filepath == Filepath(filename_prefix, counter)
    IN /\ counter <= MaxCounter
       /\ files' = Export(files, filepath, heap[m])
       /\ last' = [op |-> "save", mesh |-> m, before |-> heap[m],
                   prefix |-> filename_prefix, counter |-> counter,
                   filepath |-> filepath, dir |-> files,
                   status |-> "Saved to " \o filepath]
       /\ prev' = PrevSimplify
       /\ UNCHANGED <<heap, backend, built>>

\* --------------------------------------------------------- PreviewMeshSTL
\* np.ptp(v[:, k]): the extent of the vertices along axis k.
Ptp(box, k) == box.hi[k] - box.lo[k]

AspectOf_AtLeast(a) == IF a >= epsilon THEN a ELSE AspectSubstitute

\* "a if a > epsilon else 1.0"
AspectOf(a) == IF a > epsilon THEN a ELSE AspectSubstitute

\* "if len(mesh.faces) > PREVIEW_FACE_LIMIT"
NeedsPreviewDecimation(n) == n > PREVIEW_FACE_LIMIT

\* The boxes render_mesh may have: the input's own, or, after the preview's
\* decimation, whatever the routine produced.
RenderBoxes(m) ==
    IF NeedsPreviewDecimation(heap[m].faces)
    THEN DecimatedBoxes
    ELSE { [lo |-> heap[m].lo, hi |-> heap[m].hi] }

PreviewInvoked(m) ==
    IF NeedsPreviewDecimation(heap[m].faces)
    THEN << [mesh |-> m, face_count |-> PREVIEW_FACE_LIMIT] >>
    ELSE << >>

PreviewRaises(m) ==
    /\ NeedsPreviewDecimation(heap[m].faces)
    /\ Routine(heap[m], PREVIEW_FACE_LIMIT, backend).kind = "raised"

\* The heap after preview: render_mesh is rebound, the input is only read.
PreviewHeap(m) == heap

Preview(m) ==
    \E box \in RenderBoxes(m) :
        LET ptp == [k \in 1 .. 3 |-> Ptp(box, k)]
        IN /\ last' = IF PreviewRaises(m)
                      THEN [op |-> "preview", mesh |-> m, before |-> heap[m],
                            by |-> backend, invoked |-> PreviewInvoked(m),
                            kind |-> "raised", ptp |-> << >>, aspect |-> << >>]
                      ELSE [op |-> "preview", mesh |-> m, before |-> heap[m],
                            by |-> backend, invoked |-> PreviewInvoked(m),
                            kind |-> "returned", ptp |-> ptp,
                            aspect |-> [k \in 1 .. 3 |-> AspectOf(ptp[k])]]
           /\ prev' = PrevSimplify
           /\ heap' = PreviewHeap(m)
           /\ UNCHANGED <<backend, files, built>>

InitCommon ==
    /\ heap \in [MeshIds -> Catalogue]
    /\ backend \in Backends
    /\ last = NoCall
    /\ prev = NoCall
    /\ files = << >>
    /\ built = NoCall

NextDecimate ==
    \/ \E m \in MeshIds, t \in Targets : Simplify(m, t)
    \/ \E a, b, c \in BOOLEAN : Install(a, b, c)

SpecDecimate == InitCommon /\ [][NextDecimate]_vars

\* Files already in the output directory when the workflow starts, each
\* holding a mesh saved earlier.
OldMesh == [faces |-> 20, lo |-> <<0, 0, 0>>, hi |-> <<1, 1, 1>>]

OldFiles ==
    { Filepath(p, c) : p \in Prefixes, c \in 1 .. 2 }

InitSave ==
    /\ heap \in [MeshIds -> { c \in Catalogue : c.faces \in {4, 50001} }]
    /\ backend = "fast_simplification"
    /\ last = NoCall
    /\ prev = NoCall
    /\ files \in UNION { [S -> {OldMesh}] : S \in SUBSET OldFiles }
    /\ built = NoCall

NextSave == \E m \in MeshIds, p \in Prefixes : Save(m, p)

SpecSave == InitSave /\ [][NextSave]_vars

NextPreview ==
    \/ \E m \in MeshIds : Preview(m)
    \/ \E a, b, c \in BOOLEAN : Install(a, b, c)

SpecPreview == InitCommon /\ [][NextPreview]_vars

NextNodes ==
    \/ \E m \in MeshIds, t \in {4, 12} : Simplify(m, t)
    \/ \E m \in MeshIds : Save(m, "Mesh_")
    \/ \E m \in MeshIds : Preview(m)

InitNodes ==
    /\ heap \in [MeshIds -> { c \in Catalogue : c.faces \in {4, 50001} } \cup {FlatSlab}]
    /\ backend \in Backends
    /\ last = NoCall
    /\ prev = NoCall
    /\ files = << >>
    /\ built = NoCall

SpecNodes == InitNodes /\ [][NextNodes]_vars

\* --------------------------------------------------------- DepthMapToMesh
\* An IMAGE is a batch of grids [H, W] of samples, here in tenths (10 is 1.0);
\* vertex coordinates of a generated mesh are in thousandths of a millimetre.
Sample(pattern, i, j) ==
    CASE pattern = "zero" -> 0
      [] pattern = "full" -> 10
      [] pattern = "checker" -> 10 * ((i + j) % 2)
      [] pattern = "ramp" -> 7 * i + 4 * j - 1

Image(pattern, H, W) ==
    << [h |-> H, w |-> W,
        px |-> [j \in 0 .. H - 1 |-> [i \in 0 .. W - 1 |-> Sample(pattern, i, j)]]] >>

Clip(v, lo, hi) == IF v < lo THEN lo ELSE IF v > hi THEN hi ELSE v

\* np.clip(img_np * 255.0, 0, 255).astype(np.uint8): scale, clip, truncate.
ToUint8(tenths) == Clip(tenths * 255, 0, 2550) \div 10

\* Image.fromarray(... image[0] ...): the first grid of the batch, as bytes.
ToPIL(image) ==
    LET g == image[1]
    IN [h |-> g.h, w |-> g.w,
        px |-> [j \in 0 .. g.h - 1 |-> [i \in 0 .. g.w - 1 |-> ToUint8(g.px[j][i])]]]

RECURSIVE Pow(_, _)
Pow(b, e) == IF e = 0 THEN 1 ELSE b * Pow(b, e - 1)

RECURSIVE Concat(_)
Concat(ss) == IF ss = << >> THEN << >> ELSE Head(ss) \o Concat(Tail(ss))

\* HeightmapNormalizer: h = depth_mm * (intensity / 255) ^ power.
NormalizeHeight(intensity, depth_mm, power) ==
    (depth_mm * 1000 * Pow(intensity, power)) \div Pow(255, power)

\* Index of the top vertex of sample (i, j); its base vertex lies W * H later.
TopIndex(W, i, j) == j * W + i + 1

\* SurfaceMeshBuilder: the top vertices, row by row.
TopVertices(img, width_mm, height_mm, depth_mm, power) ==
    [k \in 1 .. img.w * img.h |->
        LET i == (k - 1) % img.w
            j == (k - 1) \div img.w
        IN << (i * width_mm * 1000) \div (img.w - 1),
              (j * height_mm * 1000) \div (img.h - 1),
              NormalizeHeight(img.px[j][i], depth_mm, power) >>]

\* SurfaceMeshBuilder: two triangles per cell, one fixed diagonal, normals +z.
TopFaces(W, H) ==
    Concat([c \in 1 .. (W - 1) * (H - 1) |->
        LET i == (c - 1) % (W - 1)
            j == (c - 1) \div (W - 1)
        IN << << TopIndex(W, i, j), TopIndex(W, i + 1, j), TopIndex(W, i, j + 1) >>,
              << TopIndex(W, i + 1, j), TopIndex(W, i + 1, j + 1), TopIndex(W, i, j + 1) >> >>])

\* SolidMeshCloser (1): the base at z = 0 under the same footprint.
BaseVertices(top) == [k \in 1 .. Len(top) |-> << top[k][1], top[k][2], 0 >>]

\* SolidMeshCloser (1): the top's triangles on the base vertices, reversed.
BaseFaces(W, H) ==
    [k \in 1 .. Len(TopFaces(W, H)) |->
        LET f == TopFaces(W, H)[k]
        IN << f[1] + W * H, f[3] + W * H, f[2] + W * H >>]

\* The wall pair under the top boundary edge the surface traverses from a to b.
WallPair(a, b, below) == << << b, a, a + below >>, << b, a + below, b + below >> >>

WallFaces_OpenBack(W, H) ==
    Concat([i \in 1 .. W - 1 |->
                WallPair(TopIndex(W, i - 1, 0), TopIndex(W, i, 0), W * H)])
    \o Concat([j \in 1 .. H - 1 |->
                WallPair(TopIndex(W, 0, j), TopIndex(W, 0, j - 1), W * H)])
    \o Concat([j \in 1 .. H - 1 |->
                WallPair(TopIndex(W, W - 1, j - 1), TopIndex(W, W - 1, j), W * H)])

\* SolidMeshCloser (2): walls along the four sides of the perimeter.
WallFaces(W, H) ==
    Concat([i \in 1 .. W - 1 |->
                WallPair(TopIndex(W, i - 1, 0), TopIndex(W, i, 0), W * H)])
    \o Concat([i \in 1 .. W - 1 |->
                WallPair(TopIndex(W, i, H - 1), TopIndex(W, i - 1, H - 1), W * H)])
    \o Concat([j \in 1 .. H - 1 |->
                WallPair(TopIndex(W, 0, j), TopIndex(W, 0, j - 1), W * H)])
    \o Concat([j \in 1 .. H - 1 |->
                WallPair(TopIndex(W, W - 1, j - 1), TopIndex(W, W - 1, j), W * H)])

DirectedEdges(f) == { << f[1], f[2] >>, << f[2], f[3] >>, << f[3], f[1] >> }

\* How many faces traverse the directed edge e.
Uses(faces, e) == Cardinality({ k \in 1 .. Len(faces) : e \in DirectedEdges(faces[k]) })

\* SolidMeshCloser's manifold check: each edge of each face is traversed by
\* exactly one face in that direction and exactly one in the other.
IsClosedManifold(faces) ==
    \A k \in 1 .. Len(faces) :
        \A e \in DirectedEdges(faces[k]) :
            /\ e[1] # e[2]
            /\ Uses(faces, e) = 1
            /\ Uses(faces, << e[2], e[1] >>) = 1

\* The parameter check of the core.
InvalidParameter(img, width_mm, height_mm, depth_mm, power) ==
    \/ width_mm <= 0
    \/ height_mm <= 0
    \/ depth_mm <= 0
    \/ power <= 0
    \/ img.w < 2
    \/ img.h < 2

\* core.depth2mesh: check the parameters, then normalize, build the surface,
\* close it, and verify the result.
depth2mesh(img, width_mm, height_mm, depth_mm, power) ==
    IF InvalidParameter(img, width_mm, height_mm, depth_mm, power)
    THEN [kind |-> "InvalidParameter", vertices |-> << >>, faces |-> << >>,
          stages |-> << >>]
    ELSE LET top == TopVertices(img, width_mm, height_mm, depth_mm, power)
             faces == TopFaces(img.w, img.h) \o BaseFaces(img.w, img.h)
                        \o WallFaces(img.w, img.h)
         IN [kind |-> IF IsClosedManifold(faces) THEN "returned" ELSE "NonManifoldResult",
             vertices |-> top \o BaseVertices(top), faces |-> faces,
             stages |-> << "normalize", "surface", "base", "walls", "check" >>]

CoreCall_DefaultPower(image, width_mm, height_mm, depth_mm, power) ==
    depth2mesh(ToPIL(image), width_mm, height_mm, depth_mm, 1)

\* "mesh = depth2mesh(img_pil, width_mm, height_mm, depth_mm, power)"
CoreCall(image, width_mm, height_mm, depth_mm, power) ==
    depth2mesh(ToPIL(image), width_mm, height_mm, depth_mm, power)

Generate(image, width_mm, height_mm, depth_mm, power) ==
    /\ built' = [op |-> "generate", image |-> image,
                 args |-> << width_mm, height_mm, depth_mm, power >>,
                 out |-> CoreCall(image, width_mm, height_mm, depth_mm, power)]
    /\ UNCHANGED <<heap, backend, last, prev, files>>

Patterns == {"zero", "full", "checker", "ramp"}

\* <<width_mm, height_mm, depth_mm, power>>: valid, and invalid in each way.
Parameters ==
    { << 10, 10, 5, 1 >>, << 10, 10, 5, 2 >>, << 0, 10, 5, 1 >>,
      << 10, 0 - 1, 5, 1 >>, << 10, 10, 0, 1 >>, << 10, 10, 5, 0 >>,
      << 10, 10, 5, 0 - 1 >>, << 0, 0, 0 - 1, 0 >> }

NextGenerate ==
    \E pattern \in Patterns, H \in 1 .. MaxGrid, W \in 1 .. MaxGrid, a \in Parameters :
        Generate(Image(pattern, H, W), a[1], a[2], a[3], a[4])

InitGenerate ==
    /\ heap = [m \in MeshIds |-> FlatSlab]
    /\ backend = "fast_simplification"
    /\ last = NoCall
    /\ prev = NoCall
    /\ files = << >>
    /\ built = NoCall

SpecGenerate == InitGenerate /\ [][NextGenerate]_vars

\* ------------------------------------------------------------------ claims
Range(f) == { f[x] : x \in DOMAIN f }

SameMesh(m) == [kind |-> "returned", ref |-> m, new |-> NoMesh]

\* The mesh a simplify call handed back, by content.
OutputMesh(call) == IF call.out.ref # 0 THEN call.before ELSE call.out.new

\* C1: when the face count is at most target_face_count, simplify returns the
\* very same mesh object, its content as it was, and never calls the
\* decimation routine.
C1_NoOpFastPath ==
    (last.op = "simplify" /\ last.before.faces <= last.target)
        => /\ last.out = SameMesh(last.mesh)
           /\ last.invoked = << >>
           /\ heap[last.mesh] = last.before

C1_Witness ==
    /\ last.op = "simplify"
    /\ last.before.faces = last.target
    /\ last.out = SameMesh(last.mesh)

\* C4 as stated: a simplify call with target_face_count < 4 is rejected with
\* InvalidParameter and never reaches the decimation routine.
C4_Original ==
    (last.op = "simplify" /\ last.target < 4)
        => (last.out.kind = "InvalidParameter" /\ last.invoked = << >>)

\* C4 amended: simplify validates nothing. With target_face_count < 4 it
\* returns the input itself when the face count is at most the target, and
\* otherwise calls the decimation routine with that very face_count and hands
\* back the routine's outcome.
C4_NoValidation ==
    (last.op = "simplify" /\ last.target < 4)
        => IF last.before.faces <= last.target
           THEN last.out = SameMesh(last.mesh) /\ last.invoked = << >>
           ELSE /\ last.invoked = << [mesh |-> last.mesh, face_count |-> last.target] >>
                /\ last.out = Routine(last.before, last.target, last.by)

C4_Witness ==
    /\ last.op = "simplify"
    /\ last.target < 4
    /\ last.before.faces > last.target
    /\ last.out.kind = "returned"
    /\ last.invoked # << >>

\* C6 as stated: on a solid (at least 4 faces) with target_face_count >= 4,
\* simplify returns a mesh, whichever backend is available.
C6_Original ==
    (last.op = "simplify" /\ last.target >= 4 /\ last.before.faces >= 4)
        => last.out.kind = "returned"

\* C6 amended: simplify raises nothing of its own. It ends in an error exactly
\* when the face count exceeds the target and the decimation routine, having
\* no usable backend, raises; in every other case it returns a mesh.
C6_ErrorsOnlyFromRoutine ==
    last.op = "simplify"
        => /\ last.out.kind \in {"returned", "raised"}
           /\ last.out.kind = "raised"
                <=> (last.before.faces > last.target /\ last.by = "none")

C6_Witness ==
    /\ last.op = "simplify"
    /\ last.target >= 4
    /\ last.before.faces > last.target
    /\ last.by = "none"
    /\ last.out.kind = "raised"

TwoRuns ==
    /\ last.op = "simplify"
    /\ prev.op = "simplify"
    /\ last.before = prev.before
    /\ last.target = prev.target

Undirected(faces) ==
    UNION { { {e[1], e[2]} : e \in DirectedEdges(faces[k]) } : k \in 1 .. Len(faces) }

ValidCall ==
    /\ built.op = "generate"
    /\ \A k \in 1 .. 4 : built.args[k] > 0
    /\ built.image[1].w >= 2
    /\ built.image[1].h >= 2

\* C3: for every valid image and parameters the generated solid is closed and
\* 2-manifold: every edge of every face is traversed once in each direction,
\* every vertex is used, and V - E + F = 2.
C3_ClosedManifold ==
    ValidCall
        => /\ built.out.kind = "returned"
           /\ \A k \in 1 .. Len(built.out.faces) :
                \A e \in DirectedEdges(built.out.faces[k]) :
                    /\ Uses(built.out.faces, e) = 1
                    /\ Uses(built.out.faces, << e[2], e[1] >>) = 1
           /\ UNION { {f[1], f[2], f[3]} : f \in Range(built.out.faces) }
                = 1 .. Len(built.out.vertices)
           /\ Len(built.out.vertices) - Cardinality(Undirected(built.out.faces))
                + Len(built.out.faces) = 2

C3_Witness ==
    /\ ValidCall
    /\ built.image[1].w = 3
    /\ built.image[1].h = 2
    /\ \A k \in 1 .. Len(built.out.vertices) : built.out.vertices[k][3] = 0
    /\ Len(built.out.faces) = 20

C7_NoMutation == [][\A m \in MeshIds : heap'[m] = heap[m]]_vars

C7_Witness ==
    /\ last.op = "preview"
    /\ last.invoked # << >>
    /\ last.kind = "returned"
    /\ heap[last.mesh] = last.before
    /\ prev.op = "simplify"
    /\ prev.invoked # << >>
    /\ prev.mesh = last.mesh
    /\ \E p \in DOMAIN files : files[p] = heap[last.mesh]

\* C9: a save writes to output/<prefix><counter, five digits>.stl for the
\* smallest counter >= 1 whose file did not exist; that file is new, it holds
\* the mesh, and every file that existed before is still there, unchanged.
C9_SaveNeverOverwrites ==
    last.op = "save"
        => /\ last.counter >= 1
           /\ last.filepath
                = "output/" \o last.prefix \o "0000" \o Digit(last.counter) \o ".stl"
           /\ last.filepath \notin DOMAIN last.dir
           /\ \A c \in 1 .. last.counter - 1 :
                Filepath(last.prefix, c) \in DOMAIN last.dir
           /\ \A p \in DOMAIN last.dir :
                p \in DOMAIN files /\ files[p] = last.dir[p]
           /\ files[last.filepath] = last.before

C9_Witness ==
    /\ last.op = "save"
    /\ last.counter = 3
    /\ \E p \in DOMAIN last.dir : last.dir[p] = OldMesh
    /\ \E p \in DOMAIN last.dir : last.dir[p] # OldMesh
    /\ Filepath(last.prefix, 2) \in DOMAIN files

====
